---- MODULE Spec2Model ----
(***************************************************************************)
(* Model of the DNS record layer of src/app.py: the shared provider        *)
(* configuration, the paginated fetcher fetch_all_domain_records and the   *)
(* four record handlers get_records, create_record, update_record and      *)
(* delete_record, talking to the remote provider through make_do_request.  *)
(*                                                                         *)
(* One request handler runs at a time as a small state machine (pc); the   *)
(* configuration handler save_config may run between any two of its steps, *)
(* as the threaded server allows.  Strings that the code splits or parses  *)
(* are sequences of one-character strings; names, zones and tokens that    *)
(* the code only compares or copies are atomic strings.                    *)
(***************************************************************************)
EXTENDS Integers, Sequences, FiniteSets, TLC

VARIABLES
    config,       \* the global config dict: API_TOKEN, DNS_ZONE ("" = unset)
    cfgHist,      \* history: every configuration that has been in force
    nSaves,       \* history: number of save_config calls so far
    saveResp,     \* status code of the last save_config response (0 = none)
    saveCred,     \* history: the credentials of the last save_config request
    auth,         \* the _auth dict: api_token (the number of the token issued)
    pc,           \* position of the running record handler
    op,           \* the request being handled
    ckTok,        \* is_config_complete: the API_TOKEN it read
    ckSeen,       \* history: outcome of is_config_complete ("none" before)
    urlZone,      \* the DNS_ZONE read while formatting the endpoint
    page,         \* fetch_all_domain_records: page
    all_records,  \* fetch_all_domain_records: all_records
    fetched,      \* the pair returned by fetch_all_domain_records
    record_id,    \* update_record / delete_record: record_id
    body,         \* record_data / update_data
    sent,         \* network log: requests given to the provider, in order
    recv,         \* network log: responses of the provider, in order
    result        \* the response of the handler

vars == <<config, cfgHist, nSaves, saveResp, saveCred, auth, pc, op, ckTok, ckSeen, urlZone,
          page, all_records, fetched, record_id, body, sent, recv, result>>

----------------------------------------------------------------------------
(* Bounds *)

MaxPages == 3          \* the provider indicates no next page on this page
MaxSaves == 1          \* save_config calls in one behaviour
MaxRegens == 1         \* regenerate_api_token calls in one behaviour
MaxValueLen == 5       \* characters of an MX value given to create or update
MaxTextLen == 2        \* characters of the data of an MX or SRV record

----------------------------------------------------------------------------
(* Program constants *)

DefaultTtl == 3600
PerPage == 200
NoId == 0              \* falsy record id: None, 0 or "" in the source

SupportedSimple == {"A", "AAAA", "CNAME", "TXT", "NS"}

----------------------------------------------------------------------------
(* Inputs *)

Tokens == {"t1", "t2"}
Zones == {"z1", "z2"}

\* the (api_token, dns_zone) bodies posted to save_config
SaveInputs == { <<"t1", "z1">>, <<"t2", "z2">>, <<"", "z2">> }

InitConfigs ==
    { [API_TOKEN |-> "",   DNS_ZONE |-> ""],
      [API_TOKEN |-> "t1", DNS_ZONE |-> ""],
      [API_TOKEN |-> "t1", DNS_ZONE |-> "z1"] }

Names == {"api", "www"}
Types == {"A", "CNAME", "PTR"}    \* the types delete_record is asked for
CallerIds == {NoId, 2, 9}

sA == <<"a">>
sMX == <<"1", "0", " ", "m">>
sMXbad == <<"x", " ", "m">>
sSRV == <<"1", " ", "2", " ", "3", " ", "t">>

\* the (type, values) pairs of the requests: each type with a well-formed and
\* with ill-formed values
TypedValues ==
    { <<"A", <<sA>>>>, <<"A", <<>>>>, <<"CNAME", <<sA>>>>, <<"CNAME", <<sA, sA>>>>,
      <<"MX", <<sMX>>>>, <<"MX", <<sA>>>>, <<"MX", <<sMXbad>>>>,
      <<"SRV", <<sSRV>>>>, <<"SRV", <<sMX>>>>, <<"PTR", <<sA>>>>, <<"", <<sA>>>> }

\* a record as the provider sends it; <<>> stands for a field that is absent
ProviderRecord(id, name, type, data, priority, weight, port) ==
    [id |-> id, name |-> name, type |-> type, ttl |-> DefaultTtl, data |-> data,
     priority |-> priority, weight |-> weight, port |-> port]

r1 == ProviderRecord(1, "api", "A", sA, <<>>, <<>>, <<>>)
r2 == ProviderRecord(2, "api", "A", sA, <<>>, <<>>, <<>>)
r3 == ProviderRecord(3, "api", "CNAME", <<"m">>, <<>>, <<>>, <<>>)

PageContents == { <<>>, <<r3>>, <<r2, r1>> }

ErrStatuses == {401, 503}

----------------------------------------------------------------------------
(* Values shared by the handlers *)

NoBody ==
    [type |-> "", name |-> "", ttl |-> 0, data |-> <<>>,
     priority |-> <<>>, weight |-> <<>>, port |-> <<>>]

NoResp == [status |-> 0, msg |-> "", records |-> <<>>, next |-> FALSE]

\* requests.get/post/put/delete raising instead of returning a response
TransportFailure ==
    [status |-> 0, msg |-> "transport", records |-> <<>>, next |-> FALSE]

NoResult ==
    [code |-> 0, kind |-> "", msg |-> "", name |-> "", type |-> "",
     records |-> <<>>, zone |-> ""]

\* what a request carries for login_required: the session's 'authenticated'
\* flag and the token of its "Authorization: Bearer" header (NoHeader = none)
NoHeader == 0
NoCred == [session |-> FALSE, bearer |-> NoHeader]
SessionCred == [session |-> TRUE, bearer |-> NoHeader]
Credentials ==
    {SessionCred} \cup { [session |-> FALSE, bearer |-> b] : b \in 0..(MaxRegens + 1) }

NoOp == [kind |-> "", name |-> "", type |-> "", values |-> <<>>, id |-> NoId,
         cred |-> NoCred]

Reply(code, kind, msg) ==
    [NoResult EXCEPT !.code = code, !.kind = kind, !.msg = msg]

\* the message the provider sends with a non-success status
ProviderMessage(status) ==
    IF status = 401 THEN "Unable to authenticate you"
    ELSE IF status = 503 THEN "Service unavailable"
    ELSE "Unknown error"

----------------------------------------------------------------------------
(* Configuration *)

\* a completeness check that looks at the token only
is_config_complete_TokenOnly(token, zone) == token # ""

\* is_config_complete: all([config.get('API_TOKEN'), config.get('DNS_ZONE')])
is_config_complete(token, zone) == token # "" /\ zone # ""

\* update_config: config.update(new_config)
update_config(cfg, new_config) ==
    [k \in DOMAIN cfg |-> IF k \in DOMAIN new_config THEN new_config[k] ELSE cfg[k]]

----------------------------------------------------------------------------
(* Text helpers: str.split(' ', maxsplit) and int() *)

HasSpace(s) == \E i \in 1..Len(s) : s[i] = " "

FirstSpace(s) == CHOOSE i \in 1..Len(s) : s[i] = " " /\ \A j \in 1..(i-1) : s[j] # " "

\* a split that ignores maxsplit and cuts at every space
RECURSIVE Split_Unlimited(_, _)
Split_Unlimited(s, maxsplit) ==
    IF ~HasSpace(s) THEN <<s>>
    ELSE LET i == FirstSpace(s)
         IN <<SubSeq(s, 1, i - 1)>> \o Split_Unlimited(SubSeq(s, i + 1, Len(s)), maxsplit)

RECURSIVE Split(_, _)
Split(s, maxsplit) ==
    IF maxsplit = 0 \/ ~HasSpace(s) THEN <<s>>
    ELSE LET i == FirstSpace(s)
         IN <<SubSeq(s, 1, i - 1)>> \o Split(SubSeq(s, i + 1, Len(s)), maxsplit - 1)

Digits == {"0", "1", "2", "3", "4", "5", "6", "7", "8", "9"}

DigitVal(c) ==
    CASE c = "0" -> 0 [] c = "1" -> 1 [] c = "2" -> 2 [] c = "3" -> 3
      [] c = "4" -> 4 [] c = "5" -> 5 [] c = "6" -> 6 [] c = "7" -> 7
      [] c = "8" -> 8 [] c = "9" -> 9

AllDigits(s) == Len(s) > 0 /\ \A i \in 1..Len(s) : s[i] \in Digits

\* the strings int() accepts, over digits, letters, signs and spaces
IsInt(s) ==
    \/ AllDigits(s)
    \/ Len(s) > 1 /\ s[1] \in {"+", "-"} /\ AllDigits(Tail(s))

RECURSIVE DigitsVal(_)
DigitsVal(s) ==
    IF s = <<>> THEN 0
    ELSE 10 * DigitsVal(SubSeq(s, 1, Len(s) - 1)) + DigitVal(s[Len(s)])

int(s) ==
    IF s[1] = "-" THEN 0 - DigitsVal(Tail(s))
    ELSE IF s[1] = "+" THEN DigitsVal(Tail(s))
    ELSE DigitsVal(s)

----------------------------------------------------------------------------
(* Encode: the type-specific part of create_record and update_record *)

EncOk(b) == [kind |-> "ok", body |-> b]
EncFail(kind) == [kind |-> kind, body |-> NoBody]

Encode(record_type, record_name, ttl, values) ==
    LET base == [NoBody EXCEPT !.type = record_type, !.name = record_name, !.ttl = ttl]
    IN  IF record_type \in SupportedSimple THEN
            IF Len(values) > 1 /\ record_type = "CNAME"
            THEN EncFail("cname_cardinality")
            ELSE EncOk([base EXCEPT !.data = values[1]])
        ELSE IF record_type = "MX" THEN
            LET parts == Split(values[1], 1)
            IN  IF Len(parts) = 2 THEN
                    IF IsInt(parts[1])
                    THEN EncOk([base EXCEPT !.priority = <<int(parts[1])>>,
                                            !.data = parts[2]])
                    ELSE EncFail("exception")
                ELSE EncFail("mx_format")
        ELSE IF record_type = "SRV" THEN
            LET parts == Split(values[1], 3)
            IN  IF Len(parts) = 4 THEN
                    IF IsInt(parts[1]) /\ IsInt(parts[2]) /\ IsInt(parts[3])
                    THEN EncOk([base EXCEPT !.priority = <<int(parts[1])>>,
                                            !.weight = <<int(parts[2])>>,
                                            !.port = <<int(parts[3])>>,
                                            !.data = parts[4]])
                    ELSE EncFail("exception")
                ELSE EncFail("srv_format")
        ELSE EncFail("unsupported_type")

\* the handler's response to an Encode failure
EncodeReply(e, o) ==
    IF e.kind = "exception" THEN Reply(500, "exception", "ValueError")
    ELSE [Reply(400, e.kind, "") EXCEPT !.type = o.type]

----------------------------------------------------------------------------
(* Lookup of the record id by (name, type) *)

\* a lookup that compares the name only
Matches_NameOnly(rec, record_name, record_type) == rec.name = record_name

Matches(rec, record_name, record_type) ==
    rec.name = record_name /\ rec.type = record_type

\* a scan without the break: the last match wins
RECURSIVE FindRecordId_NoBreak(_, _, _)
FindRecordId_NoBreak(records, record_name, record_type) ==
    IF records = <<>> THEN NoId
    ELSE LET i == Len(records)
         IN  IF Matches(records[i], record_name, record_type) THEN records[i].id
             ELSE FindRecordId_NoBreak(SubSeq(records, 1, i - 1), record_name, record_type)

\* for rec in all_records: if name and type match: record_id = rec.id; break
RECURSIVE FindRecordId(_, _, _)
FindRecordId(records, record_name, record_type) ==
    IF records = <<>> THEN NoId
    ELSE IF Matches(Head(records), record_name, record_type) THEN Head(records).id
    ELSE FindRecordId(Tail(records), record_name, record_type)

----------------------------------------------------------------------------
(* Decode: the listing built by get_records *)

Fqdn(name, zone) == IF name # "@" THEN <<name, ".", zone>> ELSE <<zone>>

DigitChar(d) ==
    CASE d = 0 -> "0" [] d = 1 -> "1" [] d = 2 -> "2" [] d = 3 -> "3"
      [] d = 4 -> "4" [] d = 5 -> "5" [] d = 6 -> "6" [] d = 7 -> "7"
      [] d = 8 -> "8" [] d = 9 -> "9"

\* the digits written lowest first
RECURSIVE StrNat_LowestFirst(_)
StrNat_LowestFirst(n) ==
    IF n < 10 THEN <<DigitChar(n)>>
    ELSE <<DigitChar(n % 10)>> \o StrNat_LowestFirst(n \div 10)

RECURSIVE StrNat(_)
StrNat(n) ==
    IF n < 10 THEN <<DigitChar(n)>> ELSE StrNat(n \div 10) \o <<DigitChar(n % 10)>>

\* an integer inside an f-string
Str(n) == IF n < 0 THEN <<"-">> \o StrNat(0 - n) ELSE StrNat(n)

\* record.get(field, 0)
GetOr0(field) == IF field = <<>> THEN 0 ELSE field[1]

\* a listing that puts the port before the weight
DecodeValues_PortFirst(rec) ==
    IF rec.type = "MX"
    THEN << Str(GetOr0(rec.priority)) \o <<" ">> \o rec.data >>
    ELSE IF rec.type = "SRV"
    THEN << Str(GetOr0(rec.priority)) \o <<" ">> \o Str(GetOr0(rec.port)) \o <<" ">>
              \o Str(GetOr0(rec.weight)) \o <<" ">> \o rec.data >>
    ELSE IF rec.data # <<>> THEN <<rec.data>> ELSE <<>>

\* "Extract record values based on type"
DecodeValues(rec) ==
    IF rec.type = "MX"
    THEN << Str(GetOr0(rec.priority)) \o <<" ">> \o rec.data >>
    ELSE IF rec.type = "SRV"
    THEN << Str(GetOr0(rec.priority)) \o <<" ">> \o Str(GetOr0(rec.weight)) \o <<" ">>
              \o Str(GetOr0(rec.port)) \o <<" ">> \o rec.data >>
    ELSE IF rec.data # <<>> THEN <<rec.data>> ELSE <<>>

DecodeRecord(rec, zone) ==
    [id |-> rec.id, name |-> rec.name, type |-> rec.type, ttl |-> rec.ttl,
     fqdn |-> Fqdn(rec.name, zone), values |-> DecodeValues(rec)]

DecodeAll(records, zone) == [i \in 1..Len(records) |-> DecodeRecord(records[i], zone)]

----------------------------------------------------------------------------
(* Requests to the provider: make_do_request *)

Request(method, zone, token, pg, id, data) ==
    [method |-> method, zone |-> zone, token |-> token, page |-> pg,
     per_page |-> IF method = "GET" THEN PerPage ELSE 0, id |-> id, body |-> data]

MutMethod(o) ==
    IF o.kind = "create" THEN "POST" ELSE IF o.kind = "update" THEN "PUT" ELSE "DELETE"

\* the status codes each handler takes for success
SuccessCodes(method) ==
    IF method = "GET" THEN {200}
    ELSE IF method = "POST" THEN {200, 201}
    ELSE IF method = "PUT" THEN {200}
    ELSE {204}

MutStatuses == {200, 201, 204} \cup ErrStatuses

----------------------------------------------------------------------------
(* fetch_all_domain_records: what it returns *)

NoFetch ==
    [returned |-> FALSE, recordsNone |-> TRUE, records |-> <<>>,
     errNone |-> TRUE, err |-> NoResp]

\* a failure that hands back the records collected so far
FetchFailure_KeepsPartial(acc, response) ==
    [returned |-> TRUE, recordsNone |-> FALSE, records |-> acc,
     errNone |-> FALSE, err |-> response]

\* return None, response
FetchFailure(acc, response) ==
    [returned |-> TRUE, recordsNone |-> TRUE, records |-> <<>>,
     errNone |-> FALSE, err |-> response]

\* an assignment instead of extend: earlier pages are lost
Extend_Overwrites(acc, records) == records

\* all_records.extend(response_data.get('domain_records', []))
Extend(acc, records) == acc \o records

\* the test on the next link inverted
LastPage_Inverted(response) == response.next

\* a fetcher that stops after the first page, whatever its links say
LastPage_Always(response) == TRUE

\* if 'next' not in pages: break
LastPage(response) == ~response.next

\* return all_records, None
FetchSuccess(acc) ==
    [returned |-> TRUE, recordsNone |-> FALSE, records |-> acc,
     errNone |-> TRUE, err |-> NoResp]

----------------------------------------------------------------------------
(* The handlers' local continuations: the code a handler runs between two   *)
(* accesses to the configuration or the network.  Each yields the next      *)
(* position, the record id, the request body and the response.              *)

Local(p, rid, b, res) == [pc |-> p, record_id |-> rid, body |-> b, result |-> res]

NotFound(o) ==
    [Reply(404, "not_found", "") EXCEPT !.name = o.name, !.type = o.type]

\* create_record / update_record from "Prepare the record data" on
Prepare(o, rid) ==
    LET e == Encode(o.type, o.name, DefaultTtl, o.values)
    IN  IF e.kind = "ok" THEN Local("mut_url", rid, e.body, NoResult)
        ELSE Local("done", rid, NoBody, EncodeReply(e, o))

\* update_record / delete_record once record_id is known to be set
WithId(o, rid) ==
    IF o.kind = "delete" THEN Local("mut_url", rid, NoBody, NoResult)
    ELSE Prepare(o, rid)

\* update_record / delete_record: the lookup after the fetch
Resolve(o, f) ==
    LET rid == IF ~f.recordsNone THEN FindRecordId(f.records, o.name, o.type) ELSE NoId
    IN  IF rid = NoId THEN Local("done", NoId, NoBody, NotFound(o))
        ELSE WithId(o, rid)

\* get_records: if err_response is not None: return the failure
ListAfterFetch(f) ==
    IF ~f.errNone
    THEN Local("done", NoId, NoBody, Reply(f.err.status, "provider_error", f.err.msg))
    ELSE Local("decode", NoId, NoBody, NoResult)

AfterFetch(o, f) == IF o.kind = "list" THEN ListAfterFetch(f) ELSE Resolve(o, f)

\* a handler that looks the record up whether or not an id came with the request
AfterConfigCheck_AlwaysFetches(o) ==
    IF o.kind = "create" THEN Prepare(o, NoId)
    ELSE Local("fetch_url", NoId, NoBody, NoResult)

\* the handlers after a completeness check that passed
AfterConfigCheck(o) ==
    IF o.kind = "list" THEN Local("fetch_url", NoId, NoBody, NoResult)
    ELSE IF o.kind = "create" THEN Prepare(o, NoId)
    ELSE IF o.id = NoId THEN Local("fetch_url", NoId, NoBody, NoResult)
    ELSE WithId(o, o.id)

\* the handlers' reading of the provider's answer to POST, PUT or DELETE
MutReply(o, response) ==
    IF response.status \in SuccessCodes(MutMethod(o))
    THEN [Reply(IF o.kind = "create" THEN 201 ELSE 200, "ok", "") EXCEPT !.name = o.name]
    ELSE Reply(response.status, "provider_error", response.msg)

\* except Exception as e: return jsonify({'error': str(e)}), 500
ExceptionReply(msg) == Reply(500, "exception", msg)

----------------------------------------------------------------------------
(* Authentication *)

\* a check that takes any bearer token
login_required_AnyBearer(cred, a) ==
    \/ cred.session
    \/ cred.bearer # NoHeader

\* the decision of the login_required decorator
login_required(cred, a) ==
    \/ cred.session
    \/ cred.bearer # NoHeader /\ cred.bearer = a.api_token

AuthRequired == Reply(401, "auth_required", "")

----------------------------------------------------------------------------
(* Initial state *)

Init ==
    /\ config \in InitConfigs
    /\ cfgHist = {config}
    /\ nSaves = 0
    /\ saveResp = 0
    /\ saveCred = NoCred
    /\ auth = [api_token |-> 1]
    /\ pc = "idle"
    /\ op = NoOp
    /\ ckTok = ""
    /\ ckSeen = "none"
    /\ urlZone = ""
    /\ page = 1
    /\ all_records = <<>>
    /\ fetched = NoFetch
    /\ record_id = NoId
    /\ body = NoBody
    /\ sent = <<>>
    /\ recv = <<>>
    /\ result = NoResult

----------------------------------------------------------------------------
(* save_config *)

save_config(cred, api_token, dns_zone) ==
    /\ nSaves < MaxSaves
    /\ nSaves' = nSaves + 1
    /\ saveCred' = cred
    /\ IF ~login_required(cred, auth)
       THEN /\ saveResp' = 401
            /\ UNCHANGED <<config, cfgHist>>
       ELSE IF api_token = "" \/ dns_zone = ""
       THEN /\ saveResp' = 400
            /\ UNCHANGED <<config, cfgHist>>
       ELSE /\ config' = update_config(config, [API_TOKEN |-> api_token, DNS_ZONE |-> dns_zone])
            /\ cfgHist' = cfgHist \cup {config'}
            /\ saveResp' = 200
    /\ UNCHANGED <<auth, pc, op, ckTok, ckSeen, urlZone, page, all_records, fetched,
                   record_id, body, sent, recv, result>>

\* POST /api/auth/api-token/regenerate: a new random token replaces the old
\* one (answer 200 with the token, or 401 and nothing changed)
regenerate_api_token(cred) ==
    /\ auth.api_token <= MaxRegens
    /\ login_required(cred, auth)
    /\ auth' = [auth EXCEPT !.api_token = auth.api_token + 1]
    /\ UNCHANGED <<config, cfgHist, nSaves, saveResp, saveCred, pc, op, ckTok, ckSeen,
                   urlZone, page, all_records, fetched, record_id, body, sent, recv,
                   result>>

----------------------------------------------------------------------------
(* The record handlers: entry *)

cfgVars == <<config, cfgHist, nSaves, saveResp, saveCred, auth>>

\* a request arrives at an idle worker
Enter(o, p, res) ==
    /\ pc = "idle"
    /\ op' = o
    /\ IF login_required(o.cred, auth)
       THEN /\ pc' = p
            /\ result' = res
       ELSE /\ pc' = "done"
            /\ result' = AuthRequired
    /\ UNCHANGED <<cfgVars, ckTok, ckSeen, urlZone, page, all_records, fetched,
                   record_id, body, sent, recv>>

get_records(cred) ==
    Enter([NoOp EXCEPT !.kind = "list", !.cred = cred], "cfg_token", NoResult)

create_record(cred, record_name, record_type, values) ==
    LET o == [NoOp EXCEPT !.kind = "create", !.name = record_name,
                          !.type = record_type, !.values = values, !.cred = cred]
    IN  IF record_name = "" \/ record_type = "" \/ values = <<>>
        THEN Enter(o, "done", Reply(400, "missing_fields", ""))
        ELSE Enter(o, "cfg_token", NoResult)

update_record(cred, record_type, record_name, values, id) ==
    LET o == [NoOp EXCEPT !.kind = "update", !.name = record_name,
                          !.type = record_type, !.values = values, !.id = id,
                          !.cred = cred]
    IN  IF values = <<>>
        THEN Enter(o, "done", Reply(400, "missing_fields", ""))
        ELSE Enter(o, "cfg_token", NoResult)

delete_record(cred, record_type, record_name, id) ==
    Enter([NoOp EXCEPT !.kind = "delete", !.name = record_name,
                       !.type = record_type, !.id = id, !.cred = cred],
          "cfg_token", NoResult)

----------------------------------------------------------------------------
(* The record handlers: steps *)

\* is_config_complete, first read: config.get('API_TOKEN')
ConfigReadToken ==
    /\ pc = "cfg_token"
    /\ ckTok' = config.API_TOKEN
    /\ pc' = "cfg_zone"
    /\ UNCHANGED <<cfgVars, op, ckSeen, urlZone, page, all_records, fetched,
                   record_id, body, sent, recv, result>>

\* is_config_complete, second read, and the handler's code up to its next
\* read of the configuration
ConfigCheck ==
    /\ pc = "cfg_zone"
    /\ IF is_config_complete(ckTok, config.DNS_ZONE)
       THEN LET n == AfterConfigCheck(op)
            IN  /\ ckSeen' = "complete"
                /\ pc' = n.pc
                /\ record_id' = n.record_id
                /\ body' = n.body
                /\ result' = n.result
       ELSE /\ ckSeen' = "incomplete"
            /\ pc' = "done"
            /\ result' = Reply(400, "config_incomplete", "")
            /\ UNCHANGED <<record_id, body>>
    /\ UNCHANGED <<cfgVars, op, ckTok, urlZone, page, all_records, fetched, sent, recv>>

\* the endpoint is formatted with config['DNS_ZONE'] before make_do_request runs
FormatEndpoint ==
    /\ pc \in {"fetch_url", "mut_url"}
    /\ urlZone' = config.DNS_ZONE
    /\ pc' = IF pc = "fetch_url" THEN "fetch_send" ELSE "mut_send"
    /\ UNCHANGED <<cfgVars, op, ckTok, ckSeen, page, all_records, fetched,
                   record_id, body, sent, recv, result>>

\* make_do_request: get_headers reads config['API_TOKEN'], the request goes out
SendRequest ==
    /\ pc \in {"fetch_send", "mut_send"}
    /\ IF config.API_TOKEN = ""
       THEN /\ pc' = "done"
            /\ result' = ExceptionReply("token not configured")
            /\ UNCHANGED sent
       ELSE /\ sent' = Append(sent,
                  IF pc = "fetch_send"
                  THEN Request("GET", urlZone, config.API_TOKEN, page, NoId, NoBody)
                  ELSE Request(MutMethod(op), urlZone, config.API_TOKEN, 0, record_id, body))
            /\ pc' = IF pc = "fetch_send" THEN "fetch_wait" ELSE "mut_wait"
            /\ UNCHANGED result
    /\ UNCHANGED <<cfgVars, op, ckTok, ckSeen, urlZone, page, all_records, fetched,
                   record_id, body, recv>>

\* the provider answers a page request; the loop body of
\* fetch_all_domain_records and, when it returns, the caller's code
FetchResponse(response) ==
    /\ pc = "fetch_wait"
    /\ recv' = Append(recv, response)
    /\ IF response.status # 200
       THEN LET f == FetchFailure(all_records, response)
                n == AfterFetch(op, f)
            IN  /\ fetched' = f
                /\ pc' = n.pc
                /\ record_id' = n.record_id
                /\ body' = n.body
                /\ result' = n.result
                /\ UNCHANGED <<page, all_records>>
       ELSE /\ all_records' = Extend(all_records, response.records)
            /\ IF LastPage(response)
               THEN LET f == FetchSuccess(all_records')
                        n == AfterFetch(op, f)
                    IN  /\ fetched' = f
                        /\ pc' = n.pc
                        /\ record_id' = n.record_id
                        /\ body' = n.body
                        /\ result' = n.result
                        /\ UNCHANGED page
               ELSE /\ page' = page + 1
                    /\ pc' = "fetch_url"
                    /\ UNCHANGED <<fetched, record_id, body, result>>
    /\ UNCHANGED <<cfgVars, op, ckTok, ckSeen, urlZone, sent>>

\* the responses the provider can give to the request for the current page
PageResponses ==
    { [status |-> 200, msg |-> "", records |-> recs, next |-> nx] :
        recs \in PageContents, nx \in {b \in BOOLEAN : b => page < MaxPages} }
    \cup { [status |-> st, msg |-> ProviderMessage(st), records |-> <<>>, next |-> FALSE] :
        st \in ErrStatuses }

ProviderPage == \E response \in PageResponses : FetchResponse(response)

\* requests.* raises: the handler's except clause answers
TransportError ==
    /\ pc \in {"fetch_wait", "mut_wait"}
    /\ recv' = Append(recv, TransportFailure)
    /\ pc' = "done"
    /\ result' = ExceptionReply("transport")
    /\ UNCHANGED <<cfgVars, op, ckTok, ckSeen, urlZone, page, all_records, fetched,
                   record_id, body, sent>>

\* get_records: the listing is built, reading config['DNS_ZONE']
DecodeListing ==
    /\ pc = "decode"
    /\ pc' = "done"
    /\ result' = [Reply(200, "ok", "") EXCEPT
                     !.records = DecodeAll(fetched.records, config.DNS_ZONE),
                     !.zone = config.DNS_ZONE]
    /\ UNCHANGED <<cfgVars, op, ckTok, ckSeen, urlZone, page, all_records, fetched,
                   record_id, body, sent, recv>>

\* the provider answers the POST, PUT or DELETE
MutResponse(response) ==
    /\ pc = "mut_wait"
    /\ recv' = Append(recv, response)
    /\ pc' = "done"
    /\ result' = MutReply(op, response)
    /\ UNCHANGED <<cfgVars, op, ckTok, ckSeen, urlZone, page, all_records, fetched,
                   record_id, body, sent>>

ProviderMut ==
    \E st \in MutStatuses :
        MutResponse([status |-> st,
                     msg |-> IF st \in ErrStatuses THEN ProviderMessage(st) ELSE "",
                     records |-> <<>>, next |-> FALSE])

\* the handler returns: its locals are gone, the network log starts afresh
Return ==
    /\ pc = "done"
    /\ pc' = "idle"
    /\ op' = NoOp
    /\ result' = NoResult
    /\ ckTok' = ""
    /\ ckSeen' = "none"
    /\ urlZone' = ""
    /\ page' = 1
    /\ all_records' = <<>>
    /\ fetched' = NoFetch
    /\ record_id' = NoId
    /\ body' = NoBody
    /\ sent' = <<>>
    /\ recv' = <<>>
    /\ UNCHANGED cfgVars

----------------------------------------------------------------------------
(* Specification *)

Next ==
    \/ \E d \in SaveInputs : save_config(SessionCred, d[1], d[2])
    \/ get_records(SessionCred)
    \/ \E n \in Names \cup {""}, tv \in TypedValues :
          create_record(SessionCred, n, tv[1], tv[2])
    \/ \E tv \in TypedValues, n \in Names, i \in CallerIds :
          tv[1] # "" /\ update_record(SessionCred, tv[1], n, tv[2], i)
    \/ \E t \in Types, n \in Names, i \in CallerIds : delete_record(SessionCred, t, n, i)
    \/ ConfigReadToken
    \/ ConfigCheck
    \/ FormatEndpoint
    \/ SendRequest
    \/ ProviderPage
    \/ TransportError
    \/ DecodeListing
    \/ ProviderMut
    \/ Return

Spec == Init /\ [][Next]_vars

----------------------------------------------------------------------------
(* The handlers under every kind of credentials, with the API token         *)
(* regenerated meanwhile; one request of each kind, on a complete           *)
(* configuration.                                                           *)

AuthInit == Init /\ config.API_TOKEN # "" /\ config.DNS_ZONE # ""

AuthNext ==
    \/ \E c \in Credentials : save_config(c, "t2", "z2")
    \/ \E c \in Credentials : regenerate_api_token(c)
    \/ \E c \in Credentials : get_records(c)
    \/ \E c \in Credentials : create_record(c, "api", "A", <<sA>>)
    \/ \E c \in Credentials : update_record(c, "A", "api", <<sA>>, 2)
    \/ \E c \in Credentials : delete_record(c, "A", "api", 2)
    \/ ConfigReadToken
    \/ ConfigCheck
    \/ FormatEndpoint
    \/ SendRequest
    \/ ProviderPage
    \/ TransportError
    \/ DecodeListing
    \/ ProviderMut
    \/ Return

AuthSpec == AuthInit /\ [][AuthNext]_vars

----------------------------------------------------------------------------
(* The handlers that fetch the record list, with progress: a handler is     *)
(* sequential code, so its next step is taken, and the provider or the      *)
(* transport answers every request; the zone has at most MaxPages pages.    *)

FetchNext ==
    \/ save_config(SessionCred, "t2", "z2")
    \/ get_records(SessionCred)
    \/ \E n \in Names : update_record(SessionCred, "A", n, <<sA>>, NoId)
    \/ \E n \in Names : delete_record(SessionCred, "A", n, NoId)
    \/ ConfigReadToken
    \/ ConfigCheck
    \/ FormatEndpoint
    \/ SendRequest
    \/ ProviderPage
    \/ TransportError
    \/ DecodeListing
    \/ ProviderMut
    \/ Return

\* the steps of the running handler, the answers to its requests included
HandlerStep ==
    \/ ConfigReadToken
    \/ ConfigCheck
    \/ FormatEndpoint
    \/ SendRequest
    \/ ProviderPage
    \/ TransportError
    \/ DecodeListing
    \/ ProviderMut

FetchSpec == AuthInit /\ [][FetchNext]_vars /\ WF_vars(HandlerStep)

----------------------------------------------------------------------------
(* The translation on its own: one record is listed and sent back as an     *)
(* update, or one MX or SRV value is given to create_record.  The           *)
(* configuration is complete and stays as it is.                            *)

Texts(alphabet, n) == UNION { [1..k -> alphabet] : k \in 0..n }

ValueAlphabet == {"1", " ", "m"}

Join4(a, b, c, d) == a \o <<" ">> \o b \o <<" ">> \o c \o <<" ">> \o d

\* SRV values: four fields, the first three numeric or not, and too few fields
SrvValues ==
    { Join4(a, b, c, <<"t">>) : a \in {<<"1">>, <<"x">>}, b \in {<<"2">>, <<"x">>},
                               c \in {<<"3">>, <<"x">>} }
    \cup { <<"1", " ", "2", " ", "t">> }

CodecRequests ==
    { [NoOp EXCEPT !.cred = SessionCred, !.kind = "create", !.name = "api", !.type = "MX", !.values = <<v>>] :
        v \in Texts(ValueAlphabet, MaxValueLen) }
    \cup
    { [NoOp EXCEPT !.cred = SessionCred, !.kind = "create", !.name = "api", !.type = "SRV", !.values = <<v>>] :
        v \in SrvValues }

Priorities == {0, 7, 10}
Weights == {0, 5}
Ports == {0, 443}

CodecRecords ==
    { ProviderRecord(5, "api", "MX", d, <<p>>, <<>>, <<>>) :
        d \in Texts(ValueAlphabet, MaxTextLen), p \in Priorities }
    \cup
    { ProviderRecord(6, "api", "SRV", d, <<p>>, <<w>>, <<q>>) :
        d \in Texts(ValueAlphabet, MaxTextLen), p \in Priorities, w \in Weights,
        q \in Ports }

CodecInit ==
    /\ config = [API_TOKEN |-> "t1", DNS_ZONE |-> "z1"]
    /\ cfgHist = {config}
    /\ nSaves = 0
    /\ saveResp = 0
    /\ saveCred = NoCred
    /\ auth = [api_token |-> 1]
    /\ ckTok = ""
    /\ ckSeen = "none"
    /\ urlZone = ""
    /\ page = 1
    /\ all_records = <<>>
    /\ record_id = NoId
    /\ body = NoBody
    /\ sent = <<>>
    /\ recv = <<>>
    /\ result = NoResult
    /\ \/ /\ pc = "encode"
          /\ op \in CodecRequests
          /\ fetched = NoFetch
       \/ /\ pc = "decode"
          /\ op = [NoOp EXCEPT !.cred = SessionCred, !.kind = "list"]
          /\ \E rec \in CodecRecords : fetched = FetchSuccess(<<rec>>)

\* the listed record comes back as the body of an update, with its id
Resubmit ==
    /\ pc = "done"
    /\ op.kind = "list"
    /\ result.kind = "ok"
    /\ result.records # <<>>
    /\ LET listed == result.records[1]
       IN  op' = [NoOp EXCEPT !.cred = SessionCred, !.kind = "update", !.name = listed.name,
                              !.type = listed.type, !.values = listed.values,
                              !.id = listed.id]
    /\ pc' = "encode"
    /\ UNCHANGED <<cfgVars, ckTok, ckSeen, urlZone, page, all_records, fetched,
                   record_id, body, sent, recv, result>>

\* create_record / update_record from "Prepare the record data" up to the
\* request to the provider
ApplyEncode ==
    /\ pc = "encode"
    /\ LET n == Prepare(op, op.id)
       IN  /\ pc' = n.pc
           /\ record_id' = n.record_id
           /\ body' = n.body
           /\ result' = n.result
    /\ UNCHANGED <<cfgVars, op, ckTok, ckSeen, urlZone, page, all_records, fetched,
                   sent, recv>>

CodecNext ==
    \/ DecodeListing
    \/ Resubmit
    \/ ApplyEncode

CodecSpec == CodecInit /\ [][CodecNext]_vars

----------------------------------------------------------------------------
(* Vocabulary of the properties: read off the network log *)

ConfigurationComplete == config.API_TOKEN # "" /\ config.DNS_ZONE # ""

\* the number of page requests sent (they come first in every operation)
NumGets == Cardinality({i \in 1..Len(sent) : sent[i].method = "GET"})

\* the answers to the page requests
PageAnswers == SubSeq(recv, 1, IF Len(recv) < NumGets THEN Len(recv) ELSE NumGets)

RECURSIVE Flatten(_)
Flatten(answers) ==
    IF answers = <<>> THEN <<>> ELSE Head(answers).records \o Flatten(Tail(answers))

\* every page was answered with success and the last one has no next link
FetchSucceeded ==
    /\ PageAnswers # <<>>
    /\ \A i \in 1..Len(PageAnswers) : PageAnswers[i].status = 200
    /\ ~PageAnswers[Len(PageAnswers)].next

\* some page was answered with a non-success response (not a transport failure)
PageFailedAt(i) ==
    /\ i \in 1..Len(PageAnswers)
    /\ PageAnswers[i].status \notin {200, 0}

MatchAt(records, k) == records[k].name = op.name /\ records[k].type = op.type

SomeMatch(records) == \E k \in 1..Len(records) : MatchAt(records, k)

ByName == op.kind \in {"update", "delete"} /\ op.id = NoId

ValidationKinds ==
    {"missing_fields", "cname_cardinality", "mx_format", "srv_format", "unsupported_type"}

FailedValidation ==
    \/ result.kind \in ValidationKinds
    \/ result.kind = "exception" /\ result.msg = "ValueError"

\* the answer number i is a failure for the handler that sent request i
AnswerFailed(i) == recv[i].status \notin SuccessCodes(sent[i].method)

----------------------------------------------------------------------------
(* Properties *)

\* C1: update and delete without an id return the failure of the fetch (the
\* provider's status and message) when a page request is answered with a
\* non-success response; they do not answer not-found.
C1_FetchFailurePropagated ==
    \A i \in 1..Len(PageAnswers) :
        (ByName /\ PageFailedAt(i)) =>
            /\ pc = "done"
            /\ result.kind = "provider_error"
            /\ result.code = PageAnswers[i].status
            /\ result.msg = PageAnswers[i].msg

\* C2: when create or update fails validation, no request has been sent to
\* the provider during the operation.
C2_ValidationBeforeNetwork ==
    (pc = "done" /\ op.kind \in {"create", "update"} /\ FailedValidation) => sent = <<>>

\* C3: every request sent to the provider carries the zone and the API token
\* of one and the same configuration, among those that have been in force.
C3_RequestsUseOneConfiguration ==
    \A i \in 1..Len(sent) :
        [API_TOKEN |-> sent[i].token, DNS_ZONE |-> sent[i].zone] \in cfgHist

\* C4: when every page is answered with success and only the last has no next
\* link, the fetcher returns the concatenation of the pages' records, in page
\* order.
C4_FetchReturnsConcatenation ==
    FetchSucceeded =>
        /\ fetched.returned
        /\ fetched.errNone
        /\ ~fetched.recordsNone
        /\ fetched.records = Flatten(PageAnswers)

C4_Witness ==
    /\ FetchSucceeded
    /\ Len(PageAnswers) = 3
    /\ PageAnswers[1].records = <<r2, r1>>
    /\ PageAnswers[2].records = <<r3>>
    /\ PageAnswers[3].records = <<r2, r1>>
    /\ fetched.records = <<r2, r1, r3, r2, r1>>

\* C5: when a page request is answered with a non-success response, the
\* fetcher stops there and returns that response and no records; the listing
\* fails with that status and carries no records.
C5_FailureReturnsNoRecords ==
    \A i \in 1..Len(PageAnswers) :
        PageFailedAt(i) =>
            /\ i = Len(sent)
            /\ fetched.returned
            /\ fetched.recordsNone
            /\ fetched.records = <<>>
            /\ ~fetched.errNone
            /\ fetched.err = PageAnswers[i]
            /\ op.kind = "list" =>
                  /\ pc = "done"
                  /\ result.code = PageAnswers[i].status
                  /\ result.records = <<>>

C5_Witness ==
    /\ PageFailedAt(3)
    /\ all_records = <<r2, r1, r3>>
    /\ fetched.recordsNone
    /\ op.kind = "list"
    /\ result.kind = "provider_error"

\* C6: page requests go out one at a time, numbered 1, 2, 3, ...; page n+1 is
\* requested only after page n was answered with success and a next link.
C6_PagesRequestedInOrder ==
    /\ Len(recv) <= Len(sent)
    /\ Len(sent) <= Len(recv) + 1
    /\ \A i \in 1..Len(sent) :
          sent[i].method = "GET" =>
              /\ sent[i].page = i
              /\ i > 1 => /\ sent[i - 1].method = "GET"
                          /\ recv[i - 1].status = 200
                          /\ recv[i - 1].next

C6_Witness ==
    /\ pc = "fetch_wait"
    /\ Len(sent) = 3
    /\ Len(recv) = 2
    /\ sent[3].method = "GET"
    /\ sent[3].page = 3

\* C7 as claimed: with an incomplete configuration every operation fails with
\* the configuration-incomplete condition and sends nothing.
C7_IncompleteConfigFailsAsIncomplete ==
    (pc = "done" /\ ~ConfigurationComplete) =>
        /\ result.kind = "config_incomplete"
        /\ sent = <<>>

\* C7 amended: with an incomplete configuration every operation sends nothing
\* and fails with the configuration-incomplete condition, except create and
\* update lacking required fields, which fail with the missing-fields
\* condition; every request sent follows a completeness check that passed.
C7_IncompleteConfigSendsNothing ==
    /\ ~ConfigurationComplete => sent = <<>>
    /\ (pc = "done" /\ ~ConfigurationComplete) =>
          \/ result.kind = "config_incomplete"
          \/ result.kind = "missing_fields" /\ op.kind \in {"create", "update"}
    /\ sent # <<>> => ckSeen = "complete"
    /\ ckSeen = "incomplete" => result.kind = "config_incomplete"

C7_Witness ==
    /\ pc = "done"
    /\ ~ConfigurationComplete
    /\ config.API_TOKEN # ""
    /\ op.kind = "delete"
    /\ result.kind = "config_incomplete"
    /\ sent = <<>>

\* C8: a PUT or DELETE targets the id the caller supplied or, without one, the
\* id of the first record in fetched order whose name and type are the
\* requested ones.
C8_TargetIdIsCallerOrFirstMatch ==
    \A i \in 1..Len(sent) :
        sent[i].method \in {"PUT", "DELETE"} =>
            IF op.id # NoId THEN sent[i].id = op.id
            ELSE LET records == Flatten(PageAnswers)
                 IN  /\ FetchSucceeded
                     /\ \E k \in 1..Len(records) :
                           /\ MatchAt(records, k)
                           /\ \A j \in 1..(k - 1) : ~MatchAt(records, j)
                           /\ sent[i].id = records[k].id

C8_Witness ==
    /\ ByName
    /\ Len(sent) = 3
    /\ sent[3].method = "PUT"
    /\ Flatten(PageAnswers) = <<r3, r2, r1>>
    /\ op.type = "A"
    /\ sent[3].id = 2

\* C9: after a successful fetch, update and delete without an id answer
\* not-found exactly when no fetched record has both the requested name and
\* type; the answer names them and no PUT or DELETE is sent.
C9_NotFoundIffNoMatch ==
    (ByName /\ FetchSucceeded) =>
        /\ result.kind = "not_found" <=> ~SomeMatch(Flatten(PageAnswers))
        /\ result.kind = "not_found" =>
              /\ pc = "done"
              /\ result.code = 404
              /\ result.name = op.name
              /\ result.type = op.type
              /\ NumGets = Len(sent)

C9_Witness ==
    /\ ByName
    /\ FetchSucceeded
    /\ op.name = "api"
    /\ op.type = "CNAME"
    /\ Flatten(PageAnswers) = <<r2, r1, r2, r1>>
    /\ result.kind = "not_found"

\* C10: once a request is answered with a failure, the operation sends
\* nothing more and returns that failure; no page and no mutating request is
\* sent twice.
C10_NoRetryFailureReturned ==
    /\ \A i \in 1..Len(recv) :
          AnswerFailed(i) =>
              /\ Len(sent) = i
              /\ pc = "done"
              /\ IF recv[i] = TransportFailure
                 THEN result.kind = "exception"
                 ELSE /\ result.kind = "provider_error"
                      /\ result.code = recv[i].status
    /\ \A i, j \in 1..Len(sent) :
          (i # j /\ sent[i].method = sent[j].method) =>
              (sent[i].method = "GET" /\ sent[i].page # sent[j].page)

----------------------------------------------------------------------------
(* Vocabulary of the properties: the text of a value *)

\* the spaces among the first i characters of s
SpaceCount(s, i) == Cardinality({j \in 1..i : j <= Len(s) /\ s[j] = " "})

NumSpaces(s) == SpaceCount(s, Len(s))

\* the position of the k-th space of s; 0 for k = 0, Len(s) + 1 if there is none
NthSpace(s, k) ==
    IF k = 0 THEN 0
    ELSE IF \E i \in 1..Len(s) : s[i] = " " /\ SpaceCount(s, i) = k
    THEN CHOOSE i \in 1..Len(s) : s[i] = " " /\ SpaceCount(s, i) = k
    ELSE Len(s) + 1

\* the text between the (k-1)-th and the k-th space
Field(s, k) == SubSeq(s, NthSpace(s, k - 1) + 1, NthSpace(s, k) - 1)

\* the text after the k-th space
Rest(s, k) == SubSeq(s, NthSpace(s, k) + 1, Len(s))

\* the whitespace-separated tokens of s
NumTokens(s) ==
    Cardinality({i \in 1..Len(s) : s[i] # " " /\ (i = 1 \/ s[i - 1] = " ")})

DigitSeq == <<"0", "1", "2", "3", "4", "5", "6", "7", "8", "9">>

IsNumeral(f) == f # <<>> /\ \A i \in 1..Len(f) : \E d \in 1..10 : DigitSeq[d] = f[i]

RECURSIVE Horner(_, _)
Horner(f, acc) ==
    IF f = <<>> THEN acc
    ELSE Horner(Tail(f), 10 * acc + (CHOOSE d \in 1..10 : DigitSeq[d] = Head(f)) - 1)

NumeralValue(f) == Horner(f, 0)

\* f is the decimal numeral of n, without leading zeros
NumeralOf(f, n) == IsNumeral(f) /\ NumeralValue(f) = n /\ (Len(f) = 1 \/ f[1] # "0")

\* create or update has gone through the type-specific preparation
Encoded == op.kind \in {"create", "update"} /\ pc \in {"done", "mut_url"} /\ op.values # <<>>

\* the record that was listed and sent back
Listed == fetched.records[1]

SentBack(type) ==
    /\ fetched.returned
    /\ Len(fetched.records) = 1
    /\ Listed.type = type
    /\ op.kind = "update"
    /\ pc # "encode"

----------------------------------------------------------------------------
(* Properties of the translation *)

\* C11: an MX value whose priority is not an integer, and an SRV value one of
\* whose first three fields is not an integer, fail with the format condition
\* of the type (status 400), not with a server error.
C11_NonIntegerIsFormatError ==
    /\ (Encoded /\ op.type = "MX" /\ NumSpaces(op.values[1]) >= 1
          /\ ~IsNumeral(Field(op.values[1], 1))) =>
          /\ pc = "done"
          /\ result.code = 400
          /\ result.kind = "mx_format"
    /\ (Encoded /\ op.type = "SRV" /\ NumSpaces(op.values[1]) >= 3
          /\ \E k \in 1..3 : ~IsNumeral(Field(op.values[1], k))) =>
          /\ pc = "done"
          /\ result.code = 400
          /\ result.kind = "srv_format"

\* C12 as claimed: an MX value fails with the format condition exactly when
\* it is not two whitespace-separated parts, and succeeds only for two parts.
C12_MXFormatIffNotTwoParts ==
    (Encoded /\ op.type = "MX") =>
        /\ result.kind = "mx_format" <=> NumTokens(op.values[1]) # 2
        /\ pc = "mut_url" => NumTokens(op.values[1]) = 2

\* C12 amended: an MX value fails with the format condition exactly when it
\* contains no space; otherwise it is cut at its first space only, and when
\* the encoding succeeds the priority is the number before that space and the
\* exchange is all the text after it, further spaces included.
C12_MXFormatIffNoSpace ==
    (Encoded /\ op.type = "MX") =>
        /\ result.kind = "mx_format" <=> NumSpaces(op.values[1]) = 0
        /\ result.kind = "mx_format" => (pc = "done" /\ result.code = 400)
        /\ pc = "mut_url" =>
              /\ IsNumeral(Field(op.values[1], 1))
              /\ body.priority = <<NumeralValue(Field(op.values[1], 1))>>
              /\ body.data = Rest(op.values[1], 1)

C12_Witness ==
    /\ Encoded
    /\ op.type = "MX"
    /\ op.values = << <<"1", " ", "m", " ", "m">> >>
    /\ pc = "mut_url"
    /\ body.priority = <<1>>
    /\ body.data = <<"m", " ", "m">>

\* C13: an MX record is listed as the one value "<priority> <data>", and that
\* value sent back encodes to the same priority and the same data.
C13_MXRoundTrip ==
    /\ (pc = "done" /\ op.kind = "list" /\ result.kind = "ok"
          /\ Len(fetched.records) = 1 /\ Listed.type = "MX") =>
          /\ Len(result.records) = 1
          /\ Len(result.records[1].values) = 1
          /\ LET v == result.records[1].values[1]
             IN  /\ NumeralOf(Field(v, 1), Listed.priority[1])
                 /\ NumSpaces(v) >= 1
                 /\ Rest(v, 1) = Listed.data
    /\ SentBack("MX") =>
          /\ pc = "mut_url"
          /\ body.type = "MX"
          /\ body.priority = Listed.priority
          /\ body.data = Listed.data

C13_Witness ==
    /\ SentBack("MX")
    /\ Listed.priority = <<10>>
    /\ Listed.data = <<"m", " ">>
    /\ op.values = << <<"1", "0", " ", "m", " ">> >>
    /\ body.priority = <<10>>
    /\ body.data = <<"m", " ">>

\* C14: an SRV record is listed as "<priority> <weight> <port> <target>", and
\* that value sent back encodes to the same four fields; the target is what
\* follows the third space, whatever it contains.
C14_SRVRoundTrip ==
    /\ (pc = "done" /\ op.kind = "list" /\ result.kind = "ok"
          /\ Len(fetched.records) = 1 /\ Listed.type = "SRV") =>
          /\ Len(result.records) = 1
          /\ Len(result.records[1].values) = 1
          /\ LET v == result.records[1].values[1]
             IN  /\ NumeralOf(Field(v, 1), Listed.priority[1])
                 /\ NumeralOf(Field(v, 2), Listed.weight[1])
                 /\ NumeralOf(Field(v, 3), Listed.port[1])
                 /\ NumSpaces(v) >= 3
                 /\ Rest(v, 3) = Listed.data
    /\ SentBack("SRV") =>
          /\ pc = "mut_url"
          /\ body.type = "SRV"
          /\ body.priority = Listed.priority
          /\ body.weight = Listed.weight
          /\ body.port = Listed.port
          /\ body.data = Listed.data

C14_Witness ==
    /\ SentBack("SRV")
    /\ Listed.priority = <<10>>
    /\ Listed.weight = <<5>>
    /\ Listed.port = <<443>>
    /\ Listed.data = <<"m", " ">>
    /\ pc = "mut_url"
    /\ body.port = <<443>>
    /\ body.data = <<"m", " ">>

----------------------------------------------------------------------------
(* Properties of the handlers, continued *)

\* every page request so far was answered with success
PagesAnswered == \A i \in 1..Len(PageAnswers) : PageAnswers[i].status = 200

NoWriteSent == \A i \in 1..Len(sent) : sent[i].method \notin {"POST", "PUT"}

SupportedTypes == {"A", "AAAA", "CNAME", "MX", "TXT", "SRV", "NS"}

\* C15: create and update of a CNAME with more than one value fail with the
\* CNAME-cardinality condition (status 400), and send no POST or PUT.
C15_CnameCardinality ==
    (op.kind \in {"create", "update"} /\ op.type = "CNAME" /\ Len(op.values) > 1) =>
        /\ NoWriteSent
        /\ (pc = "done" /\ op.name # "" /\ ckSeen = "complete" /\ PagesAnswered) =>
              /\ result.code = 400
              /\ result.kind = "cname_cardinality"

\* C16: create and update of a type outside A, AAAA, CNAME, MX, TXT, SRV, NS
\* fail with the unsupported-type condition naming the type (status 400),
\* with or without an id, and send no POST or PUT.
C16_UnsupportedType ==
    (op.kind \in {"create", "update"} /\ op.type \notin SupportedTypes \cup {""}
       /\ op.values # <<>>) =>
        /\ NoWriteSent
        /\ (pc = "done" /\ op.name # "" /\ ckSeen = "complete" /\ PagesAnswered) =>
              /\ result.code = 400
              /\ result.kind = "unsupported_type"
              /\ result.type = op.type

\* C17: every record of a listing has for fqdn the zone the records were
\* fetched from when its name is "@", and name "." zone otherwise.
C17_FqdnOfFetchedZone ==
    (pc = "done" /\ op.kind = "list" /\ result.kind = "ok") =>
        \A i \in 1..Len(result.records) :
            \E k \in 1..Len(sent) :
                result.records[i].fqdn =
                    IF result.records[i].name = "@" THEN <<sent[k].zone>>
                    ELSE <<result.records[i].name, ".", sent[k].zone>>

\* C18: the page requests of one run of the fetcher all target one zone and
\* carry one API token.
C18_PagesUseOneZoneAndToken ==
    \A i, j \in 1..Len(sent) :
        (sent[i].method = "GET" /\ sent[j].method = "GET") =>
            /\ sent[i].zone = sent[j].zone
            /\ sent[i].token = sent[j].token

\* C20: update and delete with an id from the caller fetch no list; they send
\* at most one request, the PUT or DELETE addressed to that id, and exactly
\* one when they get to the provider (configuration complete, values well
\* formed, token still set), whether or not a record has that id or that
\* (name, type); page requests are sent only when no id came with the request.
C20_CallerIdSkipsLookup ==
    /\ (op.kind \in {"update", "delete"} /\ op.id # NoId) =>
          /\ NumGets = 0
          /\ Len(sent) <= 1
          /\ \A i \in 1..Len(sent) :
                /\ sent[i].method = MutMethod(op)
                /\ sent[i].id = op.id
          /\ (pc = "done" /\ result.kind \in {"ok", "provider_error"}) => Len(sent) = 1
          /\ (pc = "done" /\ ckSeen = "complete" /\ ~FailedValidation
                /\ result.msg # "token not configured") => Len(sent) = 1
    /\ (op.kind \in {"update", "delete"} /\ NumGets > 0) => op.id = NoId

C20_Witness ==
    /\ pc = "done"
    /\ op.kind = "update"
    /\ op.id = 9
    /\ op.name = "www"
    /\ Len(sent) = 1
    /\ sent[1].method = "PUT"
    /\ sent[1].id = 9
    /\ result.kind = "ok"

----------------------------------------------------------------------------
(* Properties of the authentication *)

\* the request carries an authenticated session or the current API token
Authorized(cred) ==
    \/ cred.session = TRUE
    \/ cred.bearer \in {auth.api_token} \ {NoHeader}

\* C19: list, create, update, delete and save_config run their body only for
\* a request with an authenticated session or the current API token as bearer;
\* any other request is answered 401 authentication required, sends nothing
\* to the provider and leaves the configuration as it is.  A token that was
\* replaced by regeneration is such an other request.
C19_OnlyAuthorizedRequestsRun ==
    [][ /\ (pc = "idle" /\ pc' # "idle") =>
              IF Authorized(op'.cred)
              THEN result'.kind # "auth_required"
              ELSE /\ pc' = "done"
                   /\ result'.code = 401
                   /\ result'.kind = "auth_required"
                   /\ sent' = <<>>
                   /\ config' = config
        /\ nSaves' # nSaves =>
              IF Authorized(saveCred')
              THEN saveResp' # 401
              ELSE /\ saveResp' = 401
                   /\ config' = config
                   /\ sent' = sent
        /\ config' # config => (nSaves' # nSaves /\ Authorized(saveCred'))
        /\ (pc = "done" /\ result.kind = "auth_required") => (sent = <<>> /\ sent' = <<>>)
      ]_vars

\* a request with the replaced token is turned away
C19_Witness ==
    /\ auth.api_token = 2
    /\ pc = "done"
    /\ op.kind = "update"
    /\ op.cred = [session |-> FALSE, bearer |-> 1]
    /\ result.kind = "auth_required"
    /\ sent = <<>>
    /\ saveResp = 401
    /\ saveCred = [session |-> FALSE, bearer |-> 0]

----------------------------------------------------------------------------
(* Properties of the fetcher's termination *)

\* the last page answer is a non-success response or has no next link
TerminalAnswer ==
    /\ PageAnswers # <<>>
    /\ LET last == PageAnswers[Len(PageAnswers)]
       IN  last.status # 200 \/ ~last.next

FetchStarted == pc = "fetch_url" /\ page = 1

\* C21: the fetcher returns only once a page request was answered with a
\* non-success response or without a next link, whatever the number of pages
\* before; when the provider comes to give such an answer the fetcher ends (it
\* returns, or the transport's failure ends the handler), and list, update
\* without id and delete without id answer their caller.
C21_FetcherTerminates ==
    /\ [](fetched.returned => TerminalAnswer)
    /\ [](pc = "decode" => TerminalAnswer)
    /\ (FetchStarted ~> (fetched.returned \/ pc = "done"))
    /\ (FetchStarted ~> pc = "done")

\* a delete without id that answered after a fetch of three pages
C21_Witness ==
    /\ pc = "done"
    /\ op.kind = "delete"
    /\ op.id = NoId
    /\ NumGets = 3
    /\ fetched.returned
    /\ fetched.errNone
    /\ PageAnswers[1].next
    /\ PageAnswers[2].next
    /\ ~PageAnswers[3].next
    /\ Len(sent) = 4
    /\ result.kind = "ok"

====
